---- MODULE Spec2Model ----
(***************************************************************************)
(* Model of src/internal/auth/security.py: password verification, login,   *)
(* token issuance (PyJWT, HS-class signature over {sub, exp}), token       *)
(* resolution with the per-user blacklist check, and revocation.           *)
(*                                                                         *)
(* Time is counted in ticks, TicksPerSecond ticks to the second, so that   *)
(* the truncation of "exp" to whole seconds done by jwt.encode is visible. *)
(* A signature is modelled symbolically as the pair (key, signed payload): *)
(* it verifies under a key exactly when it was made with that key over the *)
(* payload the token carries.                                              *)
(***************************************************************************)
EXTENDS Integers, Sequences, FiniteSets, Bags

VARIABLES clock, users, blacklist, issued, revoked, result, reqs

vars == <<clock, users, blacklist, issued, revoked, result, reqs>>

-----------------------------------------------------------------------------
(* Bounds of the model *)

TicksPerSecond == 2
MaxLogins == 2

(* Requests that run concurrently *)
MaxRequests == 3

(* Program constants *)

SecondsPerMinute == 60
ACCESS_TOKEN_EXPIRE_MINUTES == 1
SECRET_KEY == "secret-key"

OtherKey == "other-key"

TicksPerMinute == SecondsPerMinute * TicksPerSecond

(* The instants at which the clock is observed: the ticks of the first     *)
(* second after each minute boundary, from minute 0 to the minute of       *)
(* expiry of a token issued in minute 0.                                   *)
ClockValues ==
    {m * TicksPerMinute + j : m \in 0..ACCESS_TOKEN_EXPIRE_MINUTES, j \in 0..TicksPerSecond}

-----------------------------------------------------------------------------
(* Exceptions *)

CredentialException ==
    [kind |-> "HTTPException", status_code |-> 401,
     detail |-> "Credentials are not valid"]

TokenExpiredException ==
    [kind |-> "HTTPException", status_code |-> 401,
     detail |-> "Token has expired"]

NotFoundError ==
    [kind |-> "NotFoundError", status_code |-> 0, detail |-> ""]

UniqueViolationError ==
    [kind |-> "UniqueViolationError", status_code |-> 0, detail |-> ""]

(* passlib.exc.UnknownHashError (a ValueError): CryptContext.verify was    *)
(* given a hash that none of its schemes identifies                        *)
UnknownHashError ==
    [kind |-> "UnknownHashError", status_code |-> 0, detail |-> ""]

(* The error of a store call that failed (I/O, timeout) *)
StoreUnavailableError ==
    [kind |-> "StoreUnavailableError", status_code |-> 0, detail |-> ""]

NoException == [kind |-> "", status_code |-> 0, detail |-> ""]

-----------------------------------------------------------------------------
(* PasswordHasher: a bcrypt hash embeds scheme, salt and digest *)

Digest(password, salt) == <<password, salt>>

generate_password_hash(password, salt) ==
    [scheme |-> "bcrypt", salt |-> salt, digest |-> Digest(password, salt)]

(* CryptContext.verify identifies the scheme of the hash first, and raises *)
(* when it is none of schemes=["bcrypt"]                                   *)
PWD_identify(hashed_password) == hashed_password.scheme = "bcrypt"

verify_password_raises(plain_password, hashed_password) ==
    ~ PWD_identify(hashed_password)

(* The value verify_password returns when it does not raise *)
verify_password(plain_password, hashed_password) ==
    hashed_password.digest = Digest(plain_password, hashed_password.salt)

(* Stored password strings that are no bcrypt hash: an empty string, the   *)
(* password in clear                                                       *)
MalformedHashes ==
    {[scheme |-> "", salt |-> "", digest |-> Digest("", "")],
     [scheme |-> "plaintext", salt |-> "", digest |-> Digest("hunter2", "")]}

-----------------------------------------------------------------------------
(* The credential store *)

None == "<none>"

NoUser == [id |-> 0, email |-> None, password |-> generate_password_hash(None, None)]

UserA == [id |-> 1, email |-> "a@x.com", password |-> generate_password_hash("secret", "s1")]
UserB == [id |-> 2, email |-> "b@x.com", password |-> generate_password_hash("hunter2", "s2")]

(* A UserResponse whose id is the id of no stored user *)
GhostUser == [id |-> 9, email |-> "ghost@x.com", password |-> generate_password_hash("boo", "s9")]

Emails == {"a@x.com", "b@x.com", "ghost@x.com"}
Passwords == {"secret", "hunter2"}

User_find_first(email, us) ==
    IF \E u \in us : u.email = email
    THEN CHOOSE u \in us : u.email = email
    ELSE NoUser

(* The blacklist table is a bag of rows [token, user_id]: the row ids the   *)
(* store assigns are read by no operation.                                 *)
(* include={"jwt_blacklist": True}: the rows related to the user           *)
jwt_blacklist(user, bl) ==
    {e \in BagToSet(bl) : e.user_id = user.id}

(* JWTBlacklist.create: connect to the user by id, token unique *)
JWTBlacklist_create(data, us, bl) ==
    IF ~ \E u \in us : u.id = data.user_id
    THEN [exc |-> NotFoundError, blacklist |-> bl]
    ELSE IF \E e \in BagToSet(bl) : e.token = data.token
    THEN [exc |-> UniqueViolationError, blacklist |-> bl]
    ELSE [exc |-> NoException, blacklist |-> bl (+) SetToBag({data})]

-----------------------------------------------------------------------------
(* TokenCodec (PyJWT) *)

Payload(sub, exp) == [sub |-> sub, exp |-> exp]

Sign(key, payload) == [key |-> key, msg |-> payload]

jwt_encode(payload, key) ==
    [wellformed |-> TRUE, payload |-> payload, signature |-> Sign(key, payload)]

Malformed ==
    [wellformed |-> FALSE, payload |-> Payload(None, 0),
     signature |-> Sign(None, Payload(None, 0))]

NoToken ==
    [wellformed |-> FALSE, payload |-> Payload(None, 0),
     signature |-> Sign("", Payload(None, 0))]

SignatureVerifies(token, key) ==
    token.wellformed /\ token.signature = Sign(key, token.payload)

(* Mutant of jwt_decode: the exp claim is validated before the signature *)
jwt_decode_expfirst(token, key, now) ==
    IF token.wellformed /\ token.payload.exp * TicksPerSecond <= now
    THEN [error |-> "ExpiredSignatureError", payload |-> Payload(None, 0)]
    ELSE IF ~ SignatureVerifies(token, key)
    THEN [error |-> "InvalidTokenError", payload |-> Payload(None, 0)]
    ELSE [error |-> "", payload |-> token.payload]

(* jwt.decode: structure and signature first, then the exp claim;          *)
(* exp (whole seconds) <= now is expired.                                  *)
jwt_decode(token, key, now) ==
    IF ~ SignatureVerifies(token, key)
    THEN [error |-> "InvalidTokenError", payload |-> Payload(None, 0)]
    ELSE IF token.payload.exp * TicksPerSecond <= now
    THEN [error |-> "ExpiredSignatureError", payload |-> Payload(None, 0)]
    ELSE [error |-> "", payload |-> token.payload]

(* Mutant of ExpireSeconds: the lifetime is not added to now *)
ExpireSeconds_nolifetime(now) ==
    now \div TicksPerSecond

(* expire = now + timedelta(minutes); jwt.encode writes it as whole seconds *)
ExpireSeconds(now) ==
    (now + ACCESS_TOKEN_EXPIRE_MINUTES * TicksPerMinute) \div TicksPerSecond

(* Mutant of create_access_token: the data is not copied into the payload *)
create_access_token_nosub(sub, now) ==
    jwt_encode(Payload(None, ExpireSeconds(now)), SECRET_KEY)

create_access_token(sub, now) ==
    jwt_encode(Payload(sub, ExpireSeconds(now)), SECRET_KEY)

-----------------------------------------------------------------------------
(* AuthService *)

authenticate_user(email, password, us) ==
    LET user == User_find_first(email, us)
    IN  IF user = NoUser \/ ~ verify_password(password, user.password)
        THEN NoUser
        ELSE user

(* authenticate_user ends by the exception verify_password raises *)
authenticate_user_raises(email, password, us) ==
    LET user == User_find_first(email, us)
    IN  user # NoUser /\ verify_password_raises(password, user.password)

Raise(exc) ==
    [status |-> "raise", exc |-> exc, access_token |-> NoToken,
     token_type |-> "", user |-> NoUser]

(* Mutant of login_for_access_token: an unknown email is reported apart *)
login_for_access_token_enum(email, password, us, now) ==
    LET user == authenticate_user(email, password, us)
    IN  IF User_find_first(email, us) = NoUser
        THEN Raise(NotFoundError)
        ELSE IF user = NoUser
        THEN Raise(CredentialException)
        ELSE [status |-> "ok", exc |-> NoException,
              access_token |-> create_access_token(user.email, now),
              token_type |-> "bearer", user |-> NoUser]

login_for_access_token(email, password, us, now) ==
    LET user == authenticate_user(email, password, us)
    IN  IF authenticate_user_raises(email, password, us)
        THEN Raise(UnknownHashError)
        ELSE IF user = NoUser
        THEN Raise(CredentialException)
        ELSE [status |-> "ok", exc |-> NoException,
              access_token |-> create_access_token(user.email, now),
              token_type |-> "bearer", user |-> NoUser]

(* Mutant of get_current_user: the blacklist is not consulted *)
get_current_user_noblacklist(token, us, bl, now) ==
    LET decoded == jwt_decode(token, SECRET_KEY, now)
        email == decoded.payload.sub
        user == User_find_first(email, us)
    IN  IF decoded.error = "ExpiredSignatureError" THEN Raise(TokenExpiredException)
        ELSE IF decoded.error = "InvalidTokenError" THEN Raise(CredentialException)
        ELSE IF email = None THEN Raise(CredentialException)
        ELSE IF user = NoUser THEN Raise(CredentialException)
        ELSE [status |-> "ok", exc |-> NoException, access_token |-> NoToken,
              token_type |-> "", user |-> user]

(* Mutant of get_current_user: the token is looked up in the whole         *)
(* blacklist, not in the rows of the user                                  *)
get_current_user_anyrow(token, us, bl, now) ==
    LET decoded == jwt_decode(token, SECRET_KEY, now)
        email == decoded.payload.sub
        user == User_find_first(email, us)
    IN  IF decoded.error = "ExpiredSignatureError" THEN Raise(TokenExpiredException)
        ELSE IF decoded.error = "InvalidTokenError" THEN Raise(CredentialException)
        ELSE IF email = None THEN Raise(CredentialException)
        ELSE IF user = NoUser THEN Raise(CredentialException)
        ELSE IF \E x \in BagToSet(bl) : x.token = token
        THEN Raise(TokenExpiredException)
        ELSE [status |-> "ok", exc |-> NoException, access_token |-> NoToken,
              token_type |-> "", user |-> user]

(* Mutant of get_current_user: the user is looked up in the unverified     *)
(* payload before the token is decoded                                     *)
get_current_user_userfirst(token, us, bl, now) ==
    LET decoded == jwt_decode(token, SECRET_KEY, now)
        user == User_find_first(token.payload.sub, us)
    IN  IF user = NoUser THEN Raise(CredentialException)
        ELSE IF decoded.error = "ExpiredSignatureError" THEN Raise(TokenExpiredException)
        ELSE IF decoded.error = "InvalidTokenError" THEN Raise(CredentialException)
        ELSE IF \E x \in jwt_blacklist(user, bl) : x.token = token
        THEN Raise(TokenExpiredException)
        ELSE [status |-> "ok", exc |-> NoException, access_token |-> NoToken,
              token_type |-> "", user |-> user]

get_current_user(token, us, bl, now) ==
    LET decoded == jwt_decode(token, SECRET_KEY, now)
        email == decoded.payload.sub
        user == User_find_first(email, us)
    IN  IF decoded.error = "ExpiredSignatureError" THEN Raise(TokenExpiredException)
        ELSE IF decoded.error = "InvalidTokenError" THEN Raise(CredentialException)
        ELSE IF email = None THEN Raise(CredentialException)
        ELSE IF user = NoUser THEN Raise(CredentialException)
        ELSE IF \E x \in jwt_blacklist(user, bl) : x.token = token
        THEN Raise(TokenExpiredException)
        ELSE [status |-> "ok", exc |-> NoException, access_token |-> NoToken,
              token_type |-> "", user |-> user]

(* Mutant of add_access_token_blacklist: the row is written without the    *)
(* store's create (no uniqueness check)                                    *)
add_access_token_blacklist_dup(token, user, us, bl) ==
    IF ~ \E u \in us : u.id = user.id
    THEN [exc |-> NotFoundError, blacklist |-> bl]
    ELSE [exc |-> NoException,
          blacklist |-> bl (+) SetToBag({[token |-> token, user_id |-> user.id]})]

(* Mutant of add_access_token_blacklist: the store's error is swallowed *)
add_access_token_blacklist_swallow(token, user, us, bl) ==
    [exc |-> NoException,
     blacklist |-> JWTBlacklist_create([token |-> token, user_id |-> user.id], us, bl).blacklist]

(* Mutant of add_access_token_blacklist: upsert, the row of a token that is *)
(* already listed is rewritten for the new user                            *)
add_access_token_blacklist_upsert(token, user, us, bl) ==
    IF ~ \E u \in us : u.id = user.id
    THEN [exc |-> NotFoundError, blacklist |-> bl]
    ELSE [exc |-> NoException,
          blacklist |-> SetToBag({e \in BagToSet(bl) : e.token # token}
                                    \cup {[token |-> token, user_id |-> user.id]})]

add_access_token_blacklist(token, user, us, bl) ==
    JWTBlacklist_create([token |-> token, user_id |-> user.id], us, bl)

-----------------------------------------------------------------------------
(* Inputs *)

IssuedTokens == {issued[i].token : i \in 1..Len(issued)}

(* Tampering with the payload of an issued token keeps its signature *)
TamperSub(token, sub) ==
    [token EXCEPT !.payload = Payload(sub, token.payload.exp)]

TamperExp(token, exp) ==
    [token EXCEPT !.payload = Payload(token.payload.sub, exp)]

FarExp == (ACCESS_TOKEN_EXPIRE_MINUTES + 2) * SecondsPerMinute

(* Validly signed tokens that no login of this store returned *)
ForeignTokens ==
    {jwt_encode(Payload("ghost@x.com", 1), SECRET_KEY),
     jwt_encode(Payload("ghost@x.com", FarExp), SECRET_KEY),
     jwt_encode(Payload(None, FarExp), SECRET_KEY)}

ForgedTokens ==
    {jwt_encode(Payload("a@x.com", exp), OtherKey) : exp \in {1, FarExp}}

TokenInputs ==
    IssuedTokens
    \cup {TamperSub(t, "b@x.com") : t \in IssuedTokens}
    \cup {TamperExp(t, FarExp) : t \in IssuedTokens}
    \cup ForeignTokens \cup ForgedTokens \cup {Malformed}

UserResponses == users \cup {GhostUser}

-----------------------------------------------------------------------------
(* State machine *)

NoResult ==
    [op |-> "none", email |-> None, password |-> None, token |-> NoToken,
     user_id |-> 0, out |-> Raise(NoException)]

(* The requests in flight, one coroutine each, numbered in the order in    *)
(* which they start                                                        *)
Procs == 1..MaxRequests

NoResp == [exc |-> NoException, user |-> NoUser, rows |-> {}]

IdleReq ==
    [pc |-> "idle", op |-> "none", email |-> None, password |-> None,
     token |-> NoToken, user_id |-> 0, calls |-> 0, resp |-> NoResp,
     seen |-> {}, at |-> 0, out |-> Raise(NoException)]

Init ==
    /\ clock = 0
    /\ users = {UserA, UserB}
    /\ blacklist = EmptyBag
    /\ issued = <<>>
    /\ revoked = {}
    /\ result = NoResult
    /\ reqs = [p \in Procs |-> IdleReq]

(* Requests are served one at a time: a request runs when the response of *)
(* the one before has been delivered, and the clock advances between       *)
(* requests.                                                               *)
Idle == result = NoResult

Tick ==
    /\ Idle
    /\ \E c \in ClockValues : c > clock /\ clock' = c
    /\ UNCHANGED <<users, blacklist, issued, revoked, result, reqs>>

Login(email, password) ==
    LET out == login_for_access_token(email, password, users, clock)
    IN  /\ Idle
        /\ out.status = "ok" => Len(issued) < MaxLogins
        /\ issued' = IF out.status = "ok"
                     THEN Append(issued, [token |-> out.access_token, at |-> clock])
                     ELSE issued
        /\ result' = [NoResult EXCEPT !.op = "login", !.email = email,
                         !.password = password, !.out = out]
        /\ UNCHANGED <<clock, users, blacklist, revoked, reqs>>

Resolve(token) ==
    LET out == get_current_user(token, users, blacklist, clock)
    IN  /\ Idle
        /\ result' = [NoResult EXCEPT !.op = "resolve", !.token = token,
                         !.out = out]
        /\ UNCHANGED <<clock, users, blacklist, issued, revoked, reqs>>

Revoke(token, user) ==
    LET r == add_access_token_blacklist(token, user, users, blacklist)
    IN  /\ Idle
        /\ blacklist' = r.blacklist
        /\ revoked' = IF r.exc = NoException
                      THEN revoked \cup {[token |-> token, user_id |-> user.id]}
                      ELSE revoked
        /\ result' = [NoResult EXCEPT !.op = "revoke", !.token = token,
                         !.user_id = user.id,
                         !.out = IF r.exc = NoException
                                 THEN [Raise(NoException) EXCEPT !.status = "ok"]
                                 ELSE Raise(r.exc)]
        /\ UNCHANGED <<clock, users, issued, reqs>>

(* The response (or the exception) reaches the caller *)
Deliver ==
    /\ ~ Idle
    /\ result' = NoResult
    /\ UNCHANGED <<clock, users, blacklist, issued, revoked, reqs>>

LoginRequest == \E email \in Emails, password \in Passwords : Login(email, password)

ResolveRequest == \E token \in TokenInputs : Resolve(token)

RevokeRequest == \E token \in IssuedTokens, user \in UserResponses : Revoke(token, user)

Next ==
    \/ Tick
    \/ LoginRequest
    \/ ResolveRequest
    \/ RevokeRequest
    \/ Deliver

Spec == Init /\ [][Next]_vars

-----------------------------------------------------------------------------
(* Logins against stores in which the password string of a user may be no  *)
(* bcrypt hash                                                             *)

HashStores ==
    {{UserA, [UserB EXCEPT !.password = h]} : h \in MalformedHashes \cup {UserB.password}}

InitHash ==
    /\ clock = 0
    /\ users \in HashStores
    /\ blacklist = EmptyBag
    /\ issued = <<>>
    /\ revoked = {}
    /\ result = NoResult
    /\ reqs = [p \in Procs |-> IdleReq]

NextHash ==
    \/ Tick
    \/ LoginRequest
    \/ Deliver

SpecHash == InitHash /\ [][NextHash]_vars

-----------------------------------------------------------------------------
(* Concurrent requests, all within one tick of the clock (expiry is the    *)
(* subject of Spec).  Each request is a coroutine: it runs without         *)
(* interruption up to its await of the store call (pc "await"), the store  *)
(* executes the call atomically or fails it (pc "resume"), and the         *)
(* coroutine runs on to its return or raise (pc "done").                   *)

(* get_current_user up to the store call: decoding the token *)
decode_token(token, now) ==
    LET decoded == jwt_decode(token, SECRET_KEY, now)
    IN  IF decoded.error = "ExpiredSignatureError"
        THEN [exc |-> TokenExpiredException, email |-> None]
        ELSE IF decoded.error = "InvalidTokenError"
        THEN [exc |-> CredentialException, email |-> None]
        ELSE IF decoded.payload.sub = None
        THEN [exc |-> CredentialException, email |-> None]
        ELSE [exc |-> NoException, email |-> decoded.payload.sub]

(* Mutant of resolve_finish: the loaded rows are not looked at *)
resolve_finish_norows(token, user, rows) ==
    IF user = NoUser THEN Raise(CredentialException)
    ELSE [status |-> "ok", exc |-> NoException, access_token |-> NoToken,
          token_type |-> "", user |-> user]

(* get_current_user after the store call *)
resolve_finish(token, user, rows) ==
    IF user = NoUser THEN Raise(CredentialException)
    ELSE IF \E x \in rows : x.token = token THEN Raise(TokenExpiredException)
    ELSE [status |-> "ok", exc |-> NoException, access_token |-> NoToken,
          token_type |-> "", user |-> user]

(* authenticate_user and login_for_access_token after the store call *)
login_finish(user, password, now) ==
    IF user = NoUser THEN Raise(CredentialException)
    ELSE IF verify_password_raises(password, user.password) THEN Raise(UnknownHashError)
    ELSE IF ~ verify_password(password, user.password) THEN Raise(CredentialException)
    ELSE [status |-> "ok", exc |-> NoException,
          access_token |-> create_access_token(user.email, now),
          token_type |-> "bearer", user |-> NoUser]

(* Mutant of after_store: a failed store call is made again *)
after_store_retry(exc) ==
    IF exc = StoreUnavailableError THEN "await" ELSE "resume"

(* Where the coroutine goes when its store call has ended: the await       *)
(* returns or raises in the coroutine, which makes no second call          *)
after_store(exc) == "resume"

(* Mutant of propagate: a failed store call is taken for "no such user" *)
propagate_as_credentials(exc) ==
    IF exc = StoreUnavailableError THEN Raise(CredentialException) ELSE Raise(exc)

(* An exception of the store call leaves the coroutine as it is *)
propagate(exc) == Raise(exc)

(* Request p is the next to start *)
NextToStart(p) ==
    /\ reqs[p].pc = "idle"
    /\ \A q \in Procs : q < p => reqs[q].pc # "idle"

ConcLogins ==
    {<<"a@x.com", "secret">>, <<"ghost@x.com", "secret">>}

ConcTokens ==
    IssuedTokens
    \cup {Malformed, jwt_encode(Payload("ghost@x.com", FarExp), SECRET_KEY)}

StartLogin(p, email, password) ==
    /\ NextToStart(p)
    /\ reqs' = [reqs EXCEPT ![p] =
                    [IdleReq EXCEPT !.pc = "await", !.op = "login", !.email = email,
                                    !.password = password]]
    /\ UNCHANGED <<clock, users, blacklist, issued, revoked, result>>

StartResolve(p, token) ==
    LET d == decode_token(token, clock)
    IN  /\ NextToStart(p)
        /\ reqs' = [reqs EXCEPT ![p] =
                        IF d.exc # NoException
                        THEN [IdleReq EXCEPT !.pc = "done", !.op = "resolve",
                                             !.token = token, !.at = clock,
                                             !.out = Raise(d.exc)]
                        ELSE [IdleReq EXCEPT !.pc = "await", !.op = "resolve",
                                             !.token = token, !.at = clock,
                                             !.email = d.email]]
        /\ UNCHANGED <<clock, users, blacklist, issued, revoked, result>>

StartRevoke(p, token, user) ==
    /\ NextToStart(p)
    /\ reqs' = [reqs EXCEPT ![p] =
                    [IdleReq EXCEPT !.pc = "await", !.op = "revoke", !.token = token,
                                    !.user_id = user.id]]
    /\ UNCHANGED <<clock, users, blacklist, issued, revoked, result>>

(* The store call fails: nothing is read or written *)
StoreFail(p) ==
    /\ reqs[p].pc = "await"
    /\ reqs' = [reqs EXCEPT ![p].pc = after_store(StoreUnavailableError),
                            ![p].calls = @ + 1,
                            ![p].resp = [NoResp EXCEPT !.exc = StoreUnavailableError]]
    /\ UNCHANGED <<clock, users, blacklist, issued, revoked, result>>

(* The store executes the call *)
StoreExec(p) ==
    LET r == reqs[p]
        user == User_find_first(r.email, users)
        ins == add_access_token_blacklist(r.token, [id |-> r.user_id], users, blacklist)
    IN  /\ r.pc = "await"
        /\ IF r.op = "revoke"
           THEN /\ blacklist' = ins.blacklist
                /\ revoked' = IF ins.exc = NoException
                              THEN revoked \cup {[token |-> r.token, user_id |-> r.user_id]}
                              ELSE revoked
                /\ reqs' = [reqs EXCEPT ![p].pc = after_store(ins.exc),
                                        ![p].calls = @ + 1,
                                        ![p].resp = [NoResp EXCEPT !.exc = ins.exc]]
           ELSE /\ reqs' = [reqs EXCEPT
                        ![p].pc = after_store(NoException),
                        ![p].calls = @ + 1,
                        ![p].seen = IF r.op = "resolve" THEN revoked ELSE {},
                        ![p].resp = [NoResp EXCEPT
                            !.user = user,
                            !.rows = IF r.op = "resolve" /\ user # NoUser
                                     THEN jwt_blacklist(user, blacklist) ELSE {}]]
                /\ UNCHANGED <<blacklist, revoked>>
        /\ UNCHANGED <<clock, users, issued, result>>

(* The coroutine runs from the await to its end *)
Resume(p) ==
    LET r == reqs[p]
        out == IF r.resp.exc # NoException THEN propagate(r.resp.exc)
               ELSE IF r.op = "login" THEN login_finish(r.resp.user, r.password, clock)
               ELSE IF r.op = "resolve" THEN resolve_finish(r.token, r.resp.user, r.resp.rows)
               ELSE [Raise(NoException) EXCEPT !.status = "ok"]
    IN  /\ r.pc = "resume"
        /\ reqs' = [reqs EXCEPT ![p].pc = "done", ![p].out = out,
                                ![p].at = IF r.op = "resolve" THEN @ ELSE clock]
        /\ issued' = IF r.op = "login" /\ out.status = "ok"
                     THEN Append(issued, [token |-> out.access_token, at |-> clock])
                     ELSE issued
        /\ UNCHANGED <<clock, users, blacklist, revoked, result>>

ConcLogin == \E p \in Procs, c \in ConcLogins : StartLogin(p, c[1], c[2])

ConcResolve == \E p \in Procs, token \in ConcTokens : StartResolve(p, token)

ConcRevoke ==
    \E p \in Procs, token \in IssuedTokens, user \in UserResponses :
        StartRevoke(p, token, user)

ConcStoreFail == \E p \in Procs : StoreFail(p)

ConcStoreExec == \E p \in Procs : StoreExec(p)

ConcResume == \E p \in Procs : Resume(p)

NextConc ==
    \/ ConcLogin
    \/ ConcResolve
    \/ ConcRevoke
    \/ ConcStoreFail
    \/ ConcStoreExec
    \/ ConcResume

SpecConc == Init /\ [][NextConc]_vars

(* The store answers every call, by a result or by an error, and a         *)
(* coroutine whose await has ended is run by the event loop                *)
SpecLive ==
    /\ Init
    /\ [][NextConc]_vars
    /\ \A p \in Procs : WF_vars(StoreExec(p) \/ StoreFail(p))
    /\ \A p \in Procs : WF_vars(Resume(p))

-----------------------------------------------------------------------------
(* Vocabulary of the properties *)

Resolved == result.op = "resolve"

LoggedIn == result.op = "login"

Revoking == result.op = "revoke"

Returned == result.out.status = "ok"

(* The stored user a token's subject names (NoUser when there is none) *)
Owner(token) == User_find_first(token.payload.sub, users)

Unexpired(token) == token.payload.exp * TicksPerSecond > clock

RowsOf(token) == {e \in BagToSet(blacklist) : e.token = token}

Row(token, user) == [token |-> token, user_id |-> user.id]

-----------------------------------------------------------------------------
(* C1: once Revoke(t, u) has succeeded for a token t that a login of u     *)
(* returned, every later Resolve(t) raises TokenExpiredException and       *)
(* returns no user, whatever the clock and whatever happened in between.   *)
C1_RevocationIsPermanent ==
    \A i \in 1..Len(issued) :
        LET t == issued[i].token
        IN  (Resolved /\ result.token = t /\ Row(t, Owner(t)) \in revoked)
                => result.out = Raise(TokenExpiredException)

(* A revoked token, not yet expired, was resolved and refused *)
C1_Witness ==
    /\ Resolved
    /\ result.token \in IssuedTokens
    /\ Row(result.token, Owner(result.token)) \in revoked
    /\ Unexpired(result.token)
    /\ result.out = Raise(TokenExpiredException)

-----------------------------------------------------------------------------
(* C2 as stated: Resolve returns user u exactly when the signature         *)
(* verifies, the expiry is in the future, the subject is u.email, u is     *)
(* stored, and the blacklist holds no row at all for the token.            *)
C2_ResolveIffNoRowForToken ==
    Resolved =>
        \A u \in users \cup {NoUser} :
            (Returned /\ result.out.user = u)
                <=> /\ u \in users
                    /\ SignatureVerifies(result.token, SECRET_KEY)
                    /\ Unexpired(result.token)
                    /\ result.token.payload.sub = u.email
                    /\ RowsOf(result.token) = {}

(* C2 as amended: the same, the blacklist condition being that none of     *)
(* u's own rows holds the token; in every other case no user is returned.  *)
C2_ResolveIffNoRowOfUser ==
    Resolved =>
        /\ \A u \in users \cup {NoUser} :
            (Returned /\ result.out.user = u)
                <=> /\ u \in users
                    /\ SignatureVerifies(result.token, SECRET_KEY)
                    /\ Unexpired(result.token)
                    /\ result.token.payload.sub = u.email
                    /\ Row(result.token, u) \notin BagToSet(blacklist)
        /\ ~ Returned => result.out.user = NoUser

(* A user was returned for a token that another user's row holds *)
C2_Witness ==
    /\ Resolved
    /\ Returned
    /\ result.out.user \in users
    /\ RowsOf(result.token) # {}

-----------------------------------------------------------------------------
(* C3 as stated: in every state in which a login has just returned token   *)
(* t, Resolve(t) run at once returns the user who logged in.               *)
C3_FreshTokenResolves ==
    (LoggedIn /\ Returned) =>
        LET r == get_current_user(result.out.access_token, users, blacklist, clock)
        IN  r.status = "ok" /\ r.user.email = result.email

-----------------------------------------------------------------------------
(* C4: a login for an unknown email and a login with a wrong password for  *)
(* a known email end with the same response, the raised                    *)
(* CredentialException, and no token.                                      *)
C4_OneCredentialError ==
    LoggedIn =>
        LET known == \E u \in users : u.email = result.email
            match == \E u \in users :
                        /\ u.email = result.email
                        /\ verify_password(result.password, u.password)
        IN  (~ known \/ ~ match) =>
                /\ result.out = Raise(CredentialException)
                /\ result.out.access_token = NoToken

(* A known email with a wrong password was refused *)
C4_Witness ==
    /\ LoggedIn
    /\ \E u \in users :
        /\ u.email = result.email
        /\ ~ verify_password(result.password, u.password)
    /\ result.out = Raise(CredentialException)

-----------------------------------------------------------------------------
(* C5: Login succeeds exactly when a stored user has the email and the    *)
(* password verifies against its hash; on success the response carries a   *)
(* well-formed token that decodes to sub = that email, and token_type      *)
(* "bearer".                                                               *)
C5_LoginIffCredentialsMatch ==
    LoggedIn =>
        /\ Returned <=> \E u \in users :
                            /\ u.email = result.email
                            /\ verify_password(result.password, u.password)
        /\ Returned =>
            /\ result.out.access_token # NoToken
            /\ result.out.access_token.wellformed
            /\ jwt_decode(result.out.access_token, SECRET_KEY, clock).payload.sub
                    = result.email
            /\ result.out.token_type = "bearer"

(* A login succeeded *)
C5_Witness ==
    /\ LoggedIn
    /\ Returned
    /\ result.email = "b@x.com"
    /\ result.out.access_token.payload.sub = "b@x.com"

-----------------------------------------------------------------------------
(* Token verification alone, as Resolve runs it *)
Verifies(token) == jwt_decode(token, SECRET_KEY, clock).error = ""

Expired(token) == jwt_decode(token, SECRET_KEY, clock).error = "ExpiredSignatureError"

LifetimeTicks == ACCESS_TOKEN_EXPIRE_MINUTES * TicksPerMinute

(* issuedAt + L cut down to a whole second, in ticks *)
TruncatedDeadline(at) == ((at + LifetimeTicks) \div TicksPerSecond) * TicksPerSecond

(* C6 as stated: a token issued at issuedAt verifies at every check time   *)
(* before issuedAt + L, and is refused as expired at every check time from *)
(* issuedAt + L on.                                                        *)
C6_ExpiryAtIssuedPlusLifetime ==
    \A i \in 1..Len(issued) :
        /\ clock < issued[i].at + LifetimeTicks => Verifies(issued[i].token)
        /\ clock >= issued[i].at + LifetimeTicks => Expired(issued[i].token)

(* C6 as amended: the boundary is issuedAt + L cut down to a whole second: *)
(* the token verifies before it and is refused as expired from it on (so   *)
(* at every time from issuedAt + L on as well), a Resolve of it then       *)
(* raising TokenExpiredException; and a token once expired stays expired.  *)
C6_ExpiryAtTruncatedDeadline ==
    /\ [](\A i \in 1..Len(issued) :
            LET t == issued[i].token
                deadline == TruncatedDeadline(issued[i].at)
            IN  /\ deadline <= issued[i].at + LifetimeTicks
                /\ clock < deadline => Verifies(t)
                /\ clock >= deadline => Expired(t)
                /\ (Resolved /\ result.token = t /\ clock >= deadline)
                        => result.out = Raise(TokenExpiredException))
    /\ [][\A i \in 1..Len(issued) :
            Expired(issued[i].token) => Expired(issued[i].token)']_vars

(* A token issued between two seconds was refused as expired by a Resolve  *)
(* run before issuedAt + L                                                 *)
C6_Witness ==
    /\ Resolved
    /\ result.out = Raise(TokenExpiredException)
    /\ RowsOf(result.token) = {}
    /\ \E i \in 1..Len(issued) :
        /\ issued[i].token = result.token
        /\ issued[i].at % TicksPerSecond # 0
        /\ clock >= TruncatedDeadline(issued[i].at)
        /\ clock < issued[i].at + LifetimeTicks

-----------------------------------------------------------------------------
(* C7: a token whose signature does not verify under SECRET_KEY (payload   *)
(* changed, other key, malformed) makes Resolve raise CredentialException, *)
(* the exception of an invalid token, and never TokenExpiredException,     *)
(* also when the exp it carries is in the past.                            *)
C7_BadSignatureIsNeverExpired ==
    (Resolved /\ ~ SignatureVerifies(result.token, SECRET_KEY)) =>
        /\ result.out = Raise(CredentialException)
        /\ result.out.exc # TokenExpiredException

(* A well-formed token signed with another key, its exp in the past, was   *)
(* refused as invalid                                                      *)
C7_Witness ==
    /\ Resolved
    /\ result.token.wellformed
    /\ ~ SignatureVerifies(result.token, SECRET_KEY)
    /\ ~ Unexpired(result.token)
    /\ result.out = Raise(CredentialException)

-----------------------------------------------------------------------------
(* C8: for a validly signed token Resolve checks expiry, then the user,    *)
(* then the user's blacklist rows, and the first check to fail decides:    *)
(* expired -> TokenExpiredException even when the subject names no user;   *)
(* unexpired, no user -> CredentialException; unexpired, user, token in    *)
(* the user's rows -> TokenExpiredException; otherwise the user.           *)
C8_FirstFailingCheckDecides ==
    (Resolved /\ SignatureVerifies(result.token, SECRET_KEY)) =>
        LET t == result.token
            u == Owner(t)
        IN  /\ ~ Unexpired(t) => result.out = Raise(TokenExpiredException)
            /\ (Unexpired(t) /\ u = NoUser) => result.out = Raise(CredentialException)
            /\ (Unexpired(t) /\ u # NoUser /\ Row(t, u) \in BagToSet(blacklist))
                    => result.out = Raise(TokenExpiredException)
            /\ (Unexpired(t) /\ u # NoUser /\ Row(t, u) \notin BagToSet(blacklist))
                    => (Returned /\ result.out.user = u)

(* A validly signed, expired token whose subject names no user was refused *)
(* as expired                                                              *)
C8_Witness ==
    /\ Resolved
    /\ SignatureVerifies(result.token, SECRET_KEY)
    /\ ~ Unexpired(result.token)
    /\ Owner(result.token) = NoUser
    /\ result.token.payload.sub # None
    /\ result.out = Raise(TokenExpiredException)

-----------------------------------------------------------------------------
(* C9: a Revoke(t, u) repeated after it has succeeded is rejected with the *)
(* store's typed error, and the store is as the first call left it: the    *)
(* blacklist is unchanged and holds exactly one row for t.                 *)
C9_RevokeTwiceChangesNothing ==
    [][(Revoking' /\ [token |-> result'.token, user_id |-> result'.user_id] \in revoked)
        => /\ result'.out = Raise(UniqueViolationError)
           /\ blacklist' = blacklist
           /\ users' = users
           /\ BagCardinality(blacklist') = Cardinality(BagToSet(blacklist'))
           /\ Cardinality({e \in BagToSet(blacklist') : e.token = result'.token}) = 1]_vars

(* The same revocation was asked a second time and rejected *)
C9_Witness ==
    /\ Revoking
    /\ [token |-> result.token, user_id |-> result.user_id] \in revoked
    /\ result.out = Raise(UniqueViolationError)
    /\ Cardinality(RowsOf(result.token)) = 1

-----------------------------------------------------------------------------
(* C10: Revoke(t, u) with a user id that no stored user has fails with     *)
(* NotFoundError and leaves the blacklist as it was, without a row for     *)
(* (t, u).                                                                 *)
C10_RevokeUnknownUserFails ==
    [][(Revoking' /\ ~ \E u \in users : u.id = result'.user_id)
        => /\ result'.out = Raise(NotFoundError)
           /\ blacklist' = blacklist
           /\ \A e \in BagToSet(blacklist') : e.user_id # result'.user_id]_vars

(* A revocation for an unknown user id was refused *)
C10_Witness ==
    /\ Revoking
    /\ result.user_id = GhostUser.id
    /\ result.out = Raise(NotFoundError)
    /\ RowsOf(result.token) = {}

-----------------------------------------------------------------------------
(* C14 as stated: any two distinct successful logins, of the same user or  *)
(* of different users, at the same or at different instants, return        *)
(* different token strings.                                                *)
C14_TokensAreUnique ==
    \A i, j \in 1..Len(issued) :
        i # j => issued[i].token # issued[j].token

-----------------------------------------------------------------------------
(* C15: for a validly signed, unexpired token t whose subject is the email *)
(* of the stored user u, Resolve(t) is refused as revoked exactly when one *)
(* of u's own rows holds t, and returns u otherwise; a row holding t for   *)
(* another user does not refuse it.                                        *)
C15_BlacklistCheckIsPerUser ==
    LET t == result.token
        u == Owner(t)
    IN  (Resolved /\ SignatureVerifies(t, SECRET_KEY) /\ Unexpired(t) /\ u # NoUser) =>
            /\ result.out = Raise(TokenExpiredException)
                    <=> \E e \in jwt_blacklist(u, blacklist) : e.token = t
            /\ result.out # Raise(TokenExpiredException)
                    => (Returned /\ result.out.user = u)

(* The token of one user, listed under the other user only, was resolved   *)
(* and its owner returned                                                  *)
C15_Witness ==
    /\ Resolved
    /\ result.token \in IssuedTokens
    /\ \E e \in RowsOf(result.token) : e.user_id # Owner(result.token).id
    /\ Unexpired(result.token)
    /\ Returned
    /\ result.out.user = Owner(result.token)

-----------------------------------------------------------------------------
(* C17: the store changes only by a successful Revoke adding one row: the  *)
(* users never change, Login and Resolve leave the blacklist as it is, a   *)
(* failed Revoke too, and no row is ever removed or rewritten.             *)
C17_OnlyRevokeGrowsTheBlacklist ==
    [][/\ users' = users
       /\ blacklist \sqsubseteq blacklist'
       /\ (LoggedIn' \/ Resolved') => blacklist' = blacklist
       /\ (Revoking' /\ ~ Returned') => blacklist' = blacklist
       /\ (Revoking' /\ Returned')
            => blacklist' = blacklist (+)
                    SetToBag({[token |-> result'.token, user_id |-> result'.user_id]})
       /\ blacklist' # blacklist => (Revoking' /\ Returned')]_vars

(* A second revocation succeeded, after a login and a resolve, and both    *)
(* rows are in the blacklist                                               *)
C17_Witness ==
    /\ Revoking
    /\ Returned
    /\ BagCardinality(blacklist) = 2
    /\ [token |-> result.token, user_id |-> result.user_id] \in BagToSet(blacklist)

-----------------------------------------------------------------------------
(* C13 as stated: verify_password returns false and never raises on a      *)
(* malformed stored hash, so a login for a user whose stored hash is       *)
(* malformed ends, for every password, in CredentialException.             *)
C13_MalformedHashIsRefused ==
    LoggedIn =>
        \A u \in users :
            (u.email = result.email /\ ~ PWD_identify(u.password))
                => /\ ~ verify_password_raises(result.password, u.password)
                   /\ result.out = Raise(CredentialException)

-----------------------------------------------------------------------------
(* Vocabulary of the properties of concurrent requests *)

Done(p) == reqs[p].pc = "done"

StoreFailed(p) == reqs[p].resp.exc = StoreUnavailableError

RowOfReq(p) == [token |-> reqs[p].token, user_id |-> reqs[p].user_id]

Rank(pc) ==
    IF pc = "idle" THEN 0 ELSE IF pc = "await" THEN 1 ELSE IF pc = "resume" THEN 2 ELSE 3

-----------------------------------------------------------------------------
(* C11: under every interleaving each request whose store call did not     *)
(* fail ends as the operation run in one piece would: a Resolve as         *)
(* get_current_user on the rows its store read returned, a Login as        *)
(* login_for_access_token, a Revoke by what the store state at its insert  *)
(* decides.  A Resolve of a login token whose store read came after the    *)
(* owner's revocation was committed raises TokenExpiredException, and of   *)
(* two Revoke requests for one token exactly one row results.              *)
C11_InterleavingsAreSequential ==
    /\ \A p \in Procs :
        (Done(p) /\ ~ StoreFailed(p)) =>
            LET r == reqs[p]
            IN  /\ r.op = "resolve" =>
                    /\ r.out = get_current_user(r.token, users, SetToBag(r.resp.rows), r.at)
                    /\ (r.token \in IssuedTokens /\ r.calls = 1
                            /\ Row(r.token, Owner(r.token)) \in r.seen)
                        => r.out = Raise(TokenExpiredException)
                /\ r.op = "login" =>
                    r.out = login_for_access_token(r.email, r.password, users, r.at)
                /\ r.op = "revoke" =>
                    /\ r.out.status = "ok" =>
                        /\ RowOfReq(p) \in revoked
                        /\ CopiesIn(RowOfReq(p), blacklist) = 1
                    /\ r.out = Raise(UniqueViolationError) =>
                        \E e \in BagToSet(blacklist) : e.token = r.token
                    /\ r.out = Raise(NotFoundError) =>
                        ~ \E u \in users : u.id = r.user_id
    /\ \A p, q \in Procs :
        (p # q /\ Done(p) /\ Done(q) /\ reqs[p].op = "revoke" /\ reqs[q].op = "revoke"
            /\ reqs[p].token = reqs[q].token
            /\ reqs[p].out.status = "ok")
        => /\ reqs[q].out.status # "ok"
           /\ BagCardinality(SetToBag(RowsOf(reqs[p].token))) = 1
           /\ \A e \in RowsOf(reqs[p].token) : CopiesIn(e, blacklist) = 1

(* Two Revoke requests for one token and one user were in flight together: *)
(* the store has executed both inserts, neither coroutine has resumed, one *)
(* insert was accepted, the other rejected, and one row is stored          *)
C11_Witness ==
    \E p, q \in Procs :
        /\ p # q
        /\ reqs[p].op = "revoke" /\ reqs[q].op = "revoke"
        /\ reqs[p].pc = "resume" /\ reqs[q].pc = "resume"
        /\ RowOfReq(p) = RowOfReq(q)
        /\ reqs[p].resp.exc = NoException
        /\ reqs[q].resp.exc = UniqueViolationError
        /\ BagCardinality(blacklist) = 1

-----------------------------------------------------------------------------
(* C12: a request whose store call failed ends with the store's error: it  *)
(* has made that one call and makes no other, and its outcome is neither a *)
(* success nor CredentialException nor TokenExpiredException; no request   *)
(* calls the store twice.                                                  *)
C12_StoreFailureEndsTheRequest ==
    \A p \in Procs :
        /\ reqs[p].calls <= 1
        /\ StoreFailed(p) =>
            /\ reqs[p].calls = 1
            /\ reqs[p].pc \in {"resume", "done"}
            /\ Done(p) =>
                /\ reqs[p].out = Raise(StoreUnavailableError)
                /\ reqs[p].out.status # "ok"
                /\ reqs[p].out.exc \notin {CredentialException, TokenExpiredException}

(* A Resolve whose store call failed has ended with the store's error *)
C12_Witness ==
    \E p \in Procs :
        /\ Done(p)
        /\ reqs[p].op = "resolve"
        /\ StoreFailed(p)
        /\ reqs[p].calls = 1
        /\ reqs[p].out = Raise(StoreUnavailableError)

-----------------------------------------------------------------------------
(* C16: in every reachable state of the interleaved requests no two rows   *)
(* of the blacklist carry the same token, and every row references a       *)
(* stored user.                                                            *)
C16_RowsAreUniqueAndOwned ==
    /\ \A e \in BagToSet(blacklist) :
        /\ CopiesIn(e, blacklist) = 1
        /\ \A f \in BagToSet(blacklist) : f.token = e.token => f = e
        /\ \E u \in users : u.id = e.user_id

(* Both Revoke requests for one token, by two users, have ended, and the   *)
(* blacklist holds the single row of the first                             *)
C16_Witness ==
    \E p, q \in Procs :
        /\ Done(p) /\ Done(q)
        /\ reqs[p].op = "revoke" /\ reqs[q].op = "revoke"
        /\ reqs[p].token = reqs[q].token
        /\ reqs[p].user_id # reqs[q].user_id
        /\ reqs[p].out.status = "ok"
        /\ reqs[q].out = Raise(UniqueViolationError)
        /\ blacklist = SetToBag({RowOfReq(p)})

-----------------------------------------------------------------------------
(* C18: when the store answers every call, every request that has started  *)
(* ends; an ended request keeps its one outcome; no request calls the      *)
(* store again after an answer, and none moves back on its path.           *)
C18_RequestsEndOnceAndForAll ==
    /\ \A p \in Procs : (reqs[p].pc \in {"await", "resume"}) ~> Done(p)
    /\ [][\A p \in Procs :
            /\ Rank(reqs'[p].pc) >= Rank(reqs[p].pc)
            /\ Done(p) => reqs'[p] = reqs[p]
            /\ reqs'[p].calls <= 1]_vars

(* A request that failed has ended and another one is still in flight *)
C18_Witness ==
    \E p, q \in Procs :
        /\ Done(p)
        /\ reqs[p].out.status = "raise"
        /\ reqs[p].calls = 1
        /\ reqs[q].pc = "await"

====
